---- MODULE Spec2Model ----
(***************************************************************************)
(* State-machine model of polymer's entity-component runtime               *)
(* (samples/engine-ecs/engine-ecs.cpp):                                    *)
(*  - transform_system: the scene graph map, the world transform map, and  *)
(*    the four mutating calls create / add_child / remove_parent / destroy *)
(*    with the two private recursions they use (specification Spec);       *)
(*  - polymer_component_pool: a dense component array with an index per    *)
(*    entity (specification PoolSpec, which includes the "add and remove"  *)
(*    test case);                                                          *)
(*  - entity_orchestrator and the systems registered with it               *)
(*    (specification OrchSpec);                                            *)
(*  - pbr_render_system and stable_cascaded_shadows                        *)
(*    (system-renderer-pbr.cpp): render_frame, the texture queries and     *)
(*    update_cascades (specifications RenderSpec, QueueSpec, LightSpec and *)
(*    CascadeSpec).                                                        *)
(***************************************************************************)
EXTENDS Integers, Sequences, FiniteSets, TLC

VARIABLES scene_graph_transforms, world_transforms, last, erase_log, calls,
          pool_dense, pool_index, pool_cap, pool_live, plast, test,
          orch_registry, sys_components, olast,
          renderer, shadow, rlast

xform_vars == <<scene_graph_transforms, world_transforms, last, erase_log, calls>>

pool_vars == <<pool_dense, pool_index, pool_cap, pool_live, plast, test>>

orch_vars == <<orch_registry, sys_components, olast>>

render_vars == <<renderer, shadow, rlast>>

vars == <<xform_vars, pool_vars, orch_vars, render_vars>>

----------------------------------------------------------------------------
(* Bounds *)

\* number of entity ids handed out by the orchestrator (1..NumEntities)
NumEntities == 3

\* cap on the length of one children vector (add_child keeps pushing)
MaxChildren == 2

\* number of calls made on one transform_system
MaxCalls == 6

----------------------------------------------------------------------------
(* Entities and poses *)

kInvalidEntity == 0

Entity == 1..NumEntities

\* every value an entity argument can take: the ids and the sentinel
EntityArg == Entity \cup {kInvalidEntity}

\* A rigid pose restricted to the plane: a rotation about z by rot * 180
\* degrees followed by a translation (x, y).
Pose(rot, x, y) == [rot |-> rot, x |-> x, y |-> y]

Identity == Pose(0, 0, 0)

\* qrot(orientation, v) for the two orientations of the model
transform_vector(p, x, y) == IF p.rot = 0 THEN <<x, y>> ELSE <<0 - x, 0 - y>>

\* Pose::operator* : { qmul(orientation, b.orientation), transform_coord(b.position) }
PoseMul(a, b) ==
    LET v == transform_vector(a, b.x, b.y)
    IN  Pose((a.rot + b.rot) % 2, a.x + v[1], a.y + v[2])

\* the (local_pose, local_scale) arguments create is called with
XformArgs ==
    { <<Identity, 1>>,
      <<Pose(0, 1, 0), 1>>,
      <<Pose(0, 0, 5), 2>>,
      <<Pose(1, 2, 0), 2>> }

----------------------------------------------------------------------------
(* Component records.  A map is a function over every key with a `present' *)
(* flag; an absent key holds the canonical absent record.                  *)

\* scene_graph_component() : identity pose, zero scale, no parent, no children
DefaultNode ==
    [present |-> TRUE, local_pose |-> Identity, local_scale |-> 0,
     parent |-> kInvalidEntity, children |-> <<>>]

AbsentNode == [DefaultNode EXCEPT !.present = FALSE]

\* world_transform_component()
DefaultWorld == [present |-> TRUE, world_pose |-> Identity]

AbsentWorld == [DefaultWorld EXCEPT !.present = FALSE]

\* std::unordered_map::operator[] : inserts a default element for a missing key
SubscriptNode(sg, e) == IF sg[e].present THEN sg ELSE [sg EXCEPT ![e] = DefaultNode]

SubscriptWorld(wt, e) == IF wt[e].present THEN wt ELSE [wt EXCEPT ![e] = DefaultWorld]

\* an erase of the first occurrence only (std::find + erase)
RECURSIVE EraseFirst(_, _)
EraseFirst(s, e) ==
    IF s = <<>> THEN <<>>
    ELSE IF Head(s) = e THEN Tail(s)
    ELSE <<Head(s)>> \o EraseFirst(Tail(s), e)

\* std::remove + erase : drops every occurrence of e
RECURSIVE EraseValue(_, _)
EraseValue(s, e) ==
    IF s = <<>> THEN <<>>
    ELSE IF Head(s) = e THEN EraseValue(Tail(s), e)
    ELSE <<Head(s)>> \o EraseValue(Tail(s), e)

SeqToSet(s) == {s[i] : i \in 1..Len(s)}

Count(s, e) == Cardinality({i \in 1..Len(s) : s[i] = e})

----------------------------------------------------------------------------
(* The two private recursions.  `stack' is the set of entities whose call  *)
(* is still on the call stack: re-entering one of them repeats the same    *)
(* descent for ever, which the model reports as overflow.                  *)

RECURSIVE recalculate_world_transform(_, _, _, _)
RECURSIVE recalculate_children(_, _, _, _)

recalculate_world_transform(sg, wt, child, stack) ==
    LET sg1   == SubscriptNode(sg, child)
        wt1   == SubscriptWorld(wt, child)
        node  == sg1[child]
        sg2   == IF node.parent # kInvalidEntity
                 THEN SubscriptNode(sg1, node.parent) ELSE sg1
        world == IF node.parent # kInvalidEntity
                 THEN PoseMul(node.local_pose, sg2[node.parent].local_pose)
                 ELSE node.local_pose
        wt2   == [wt1 EXCEPT ![child].world_pose = world]
    IN  recalculate_children([sg |-> sg2, wt |-> wt2, overflow |-> FALSE],
                             node.children, 1, stack \cup {child})

recalculate_children(st, cs, i, stack) ==
    IF st.overflow \/ i > Len(cs) THEN st
    ELSE IF cs[i] \in stack THEN [st EXCEPT !.overflow = TRUE]
    ELSE recalculate_children(
             recalculate_world_transform(st.sg, st.wt, cs[i], stack),
             cs, i + 1, stack)

RECURSIVE destroy_recursive(_, _, _, _, _)
RECURSIVE destroy_children(_, _, _, _)

\* a destroy that erases the entity alone and leaves its children behind
destroy_recursive_NoChildren(sg, wt, log, child, stack) ==
    [sg  |-> [sg EXCEPT ![child] = AbsentNode],
     wt  |-> [wt EXCEPT ![child] = AbsentWorld],
     log |-> Append(log, child),
     overflow |-> FALSE]

destroy_recursive(sg, wt, log, child, stack) ==
    LET sg1  == SubscriptNode(sg, child)
        node == sg1[child]
        st   == destroy_children([sg |-> sg1, wt |-> wt, log |-> log, overflow |-> FALSE],
                                 node.children, 1, stack \cup {child})
    IN  IF st.overflow THEN st
        ELSE [sg  |-> [st.sg EXCEPT ![child] = AbsentNode],
              wt  |-> [st.wt EXCEPT ![child] = AbsentWorld],
              log |-> Append(st.log, child),
              overflow |-> FALSE]

destroy_children(st, cs, i, stack) ==
    IF st.overflow \/ i > Len(cs) THEN st
    ELSE IF cs[i] \in stack THEN [st EXCEPT !.overflow = TRUE]
    ELSE destroy_children(
             destroy_recursive(st.sg, st.wt, st.log, cs[i], stack),
             cs, i + 1, stack)

----------------------------------------------------------------------------
(* Queries *)

has_transform(e) == scene_graph_transforms[e].present

get_local_transform(e) ==
    IF e = kInvalidEntity THEN AbsentNode
    ELSE IF scene_graph_transforms[e].present THEN scene_graph_transforms[e]
    ELSE AbsentNode

get_world_transform(e) ==
    IF e = kInvalidEntity THEN AbsentWorld
    ELSE IF world_transforms[e].present THEN world_transforms[e]
    ELSE AbsentWorld

get_parent(child) ==
    IF child = kInvalidEntity THEN kInvalidEntity
    ELSE IF scene_graph_transforms[child].present
         THEN (IF scene_graph_transforms[child].parent # kInvalidEntity
               THEN scene_graph_transforms[child].parent ELSE kInvalidEntity)
         ELSE kInvalidEntity

----------------------------------------------------------------------------
(* Calls.  `last' records the call just made and how it ended:             *)
(* "ok", "invalid_argument" (std::invalid_argument thrown) or              *)
(* "stack_overflow" (the recursion never returns; the process is gone).    *)
(* a, b are the entity arguments (for remove_parent b is the parent the    *)
(* child had when the call was made), x the pose and scale given to        *)
(* create, had whether a had a transform when the call was made.           *)
(* `erase_log' lists the keys erased by the latest successful destroy, in  *)
(* the order of the erase calls; a call other than destroy clears it.      *)

NoXform == <<Identity, 0>>

Call(op, a, b, x, res) ==
    [op |-> op, a |-> a, b |-> b, x |-> x, res |-> res,
     had |-> scene_graph_transforms[a].present]

Running == last.res # "stack_overflow" /\ calls < MaxCalls

Result(st) == IF st.overflow THEN "stack_overflow" ELSE "ok"

TransformInit ==
    /\ scene_graph_transforms = [e \in EntityArg |-> AbsentNode]
    /\ world_transforms = [e \in EntityArg |-> AbsentWorld]
    /\ last = [op |-> "init", a |-> kInvalidEntity, b |-> kInvalidEntity,
               x |-> NoXform, res |-> "ok", had |-> FALSE]
    /\ erase_log = <<>>
    /\ calls = 0

\* a create that forgets to store the scale
InitNode_NoScale(local_pose, local_scale) ==
    [DefaultNode EXCEPT !.local_pose = local_pose]

\* scene_graph_component(e) with the given local pose and scale
InitNode(local_pose, local_scale) ==
    [DefaultNode EXCEPT !.local_pose = local_pose, !.local_scale = local_scale]

create(e, local_pose, local_scale) ==
    /\ Running
    /\ UNCHANGED <<pool_vars, orch_vars, render_vars>>
    /\ calls' = calls + 1
    /\ erase_log' = <<>>
    /\ LET sg1 == [scene_graph_transforms EXCEPT ![e] = InitNode(local_pose, local_scale)]
           wt1 == [world_transforms EXCEPT ![e] = DefaultWorld]
           st  == recalculate_world_transform(sg1, wt1, e, {})
       IN  /\ scene_graph_transforms' = st.sg
           /\ world_transforms' = st.wt
           /\ last' = Call("create", e, kInvalidEntity, <<local_pose, local_scale>>,
                           Result(st))

\* an add_child that does not check the child for a transform
add_child_throws_NoChildCheck(parent, child) ==
    \/ parent = kInvalidEntity
    \/ child = kInvalidEntity
    \/ ~has_transform(parent)

\* the four checks that make add_child throw std::invalid_argument
add_child_throws(parent, child) ==
    \/ parent = kInvalidEntity
    \/ child = kInvalidEntity
    \/ ~has_transform(parent)
    \/ ~has_transform(child)

add_child(parent, child) ==
    /\ Running
    /\ UNCHANGED <<pool_vars, orch_vars, render_vars>>
    /\ calls' = calls + 1
    /\ erase_log' = <<>>
    /\ IF add_child_throws(parent, child)
       THEN /\ last' = Call("add_child", parent, child, NoXform, "invalid_argument")
            /\ UNCHANGED <<scene_graph_transforms, world_transforms>>
       ELSE /\ Len(scene_graph_transforms[parent].children) < MaxChildren
            /\ LET sg1 == [SubscriptNode(scene_graph_transforms, parent) EXCEPT
                              ![parent].children = Append(@, child)]
                   sg2 == [SubscriptNode(sg1, child) EXCEPT ![child].parent = parent]
                   st  == recalculate_world_transform(sg2, world_transforms, parent, {})
               IN  /\ scene_graph_transforms' = st.sg
                   /\ world_transforms' = st.wt
                   /\ last' = Call("add_child", parent, child, NoXform, Result(st))

remove_parent(child) ==
    /\ Running
    /\ UNCHANGED <<pool_vars, orch_vars, render_vars>>
    /\ calls' = calls + 1
    /\ erase_log' = <<>>
    /\ LET sg1 == SubscriptNode(scene_graph_transforms, child)
           p   == sg1[child].parent
       IN  IF p # kInvalidEntity
           THEN LET sg2 == SubscriptNode(sg1, p)
                    sg3 == [sg2 EXCEPT ![p].children = EraseValue(@, child)]
                    sg4 == [sg3 EXCEPT ![child].parent = kInvalidEntity]
                    st  == recalculate_world_transform(sg4, world_transforms, child, {})
                IN  /\ scene_graph_transforms' = st.sg
                    /\ world_transforms' = st.wt
                    /\ last' = Call("remove_parent", child, p, NoXform, Result(st))
           ELSE /\ scene_graph_transforms' = sg1
                /\ UNCHANGED world_transforms
                /\ last' = Call("remove_parent", child, kInvalidEntity, NoXform, "ok")

\* a destroy that does not check the entity for a transform
destroy_throws_NoTransformCheck(e) == e = kInvalidEntity

\* the two checks that make destroy throw std::invalid_argument
destroy_throws(e) == e = kInvalidEntity \/ ~has_transform(e)

destroy(e) ==
    /\ Running
    /\ UNCHANGED <<pool_vars, orch_vars, render_vars>>
    /\ calls' = calls + 1
    /\ IF destroy_throws(e)
       THEN /\ last' = Call("destroy", e, kInvalidEntity, NoXform, "invalid_argument")
            /\ UNCHANGED <<scene_graph_transforms, world_transforms, erase_log>>
       ELSE LET st == destroy_recursive(scene_graph_transforms, world_transforms,
                                        <<>>, e, {})
            IN  /\ scene_graph_transforms' = st.sg
                /\ world_transforms' = st.wt
                /\ erase_log' = st.log
                /\ last' = Call("destroy", e, kInvalidEntity, NoXform, Result(st))


----------------------------------------------------------------------------
(* polymer_component_pool<T>: components stored densely in creation order, *)
(* an index per entity giving the component's place (0: none), destroy by  *)
(* moving the last component into the hole.  T is scene_graph_component,   *)
(* of which only the owning entity and the `parent' field written by the   *)
(* test case are kept (as `data').                                         *)

\* entities used by the calls of PoolSpec: 0..MaxPoolEntity
MaxPoolEntity == 2

\* capacity hints a pool of PoolSpec is constructed with: 0..MaxHint
MaxHint == 2

\* values written into a component of PoolSpec: 0..MaxData
MaxData == 2

\* the "add and remove" test case
PoolReserve == 32

TestCount == 128

TestFactor == 10

DestroyFrom == 44

DestroyTo == 101

PoolEntity == 0..MaxPoolEntity

PoolKey == 0..(TestCount - 1)

PoolComponent(e, d) == [entity |-> e, data |-> d]

\* a component constructed without its entity
NewComponent_NoEntity(e) == PoolComponent(kInvalidEntity, kInvalidEntity)

\* scene_graph_component(e): parent{ kInvalidEntity }
NewComponent(e) == PoolComponent(e, kInvalidEntity)

\* a pointer to a component, or nullptr
Ptr(c) == [null |-> FALSE, entity |-> c.entity, data |-> c.data]

NullPtr == [null |-> TRUE, entity |-> kInvalidEntity, data |-> kInvalidEntity]

PoolConstruct(hint) ==
    [dense |-> <<>>, index |-> [e \in PoolKey |-> 0], cap |-> hint]

\* a size() that reports the reserved capacity
PoolSize_Capacity(p) == p.cap

PoolSize(p) == Len(p.dense)

PoolContains(p, e) == p.index[e] # 0

PoolGet(p, e) == IF p.index[e] # 0 THEN Ptr(p.dense[p.index[e]]) ELSE NullPtr

\* a reallocation that default-constructs the components instead of moving them
PoolGrow_LosesData(p) ==
    [p EXCEPT !.cap = IF p.cap = 0 THEN 1 ELSE 2 * p.cap,
              !.dense = [i \in 1..Len(p.dense) |-> NewComponent(p.dense[i].entity)]]

\* growth past the capacity: the components move to a larger array
PoolGrow(p) == [p EXCEPT !.cap = IF p.cap = 0 THEN 1 ELSE 2 * p.cap]

\* an emplace that does not look for the entity first
PoolEmplace_NoDupCheck(p, e) ==
    LET g == IF Len(p.dense) >= p.cap THEN PoolGrow(p) ELSE p
    IN  [g EXCEPT !.dense = Append(g.dense, NewComponent(e)),
                  !.index[e] = Len(g.dense) + 1]

PoolEmplace(p, e) ==
    IF PoolContains(p, e) THEN p
    ELSE LET g == IF Len(p.dense) >= p.cap THEN PoolGrow(p) ELSE p
         IN  [g EXCEPT !.dense = Append(g.dense, NewComponent(e)),
                       !.index[e] = Len(g.dense) + 1]

\* a destroy that does not look for the entity first and drops the last component
PoolDestroy_NoPresenceCheck(p, e) ==
    IF p.dense = <<>> THEN p
    ELSE LET n == Len(p.dense)
         IN  [p EXCEPT !.dense = SubSeq(p.dense, 1, n - 1),
                       !.index[p.dense[n].entity] = 0]

PoolDestroy(p, e) ==
    IF ~PoolContains(p, e) THEN p
    ELSE LET i     == p.index[e]
             n     == Len(p.dense)
             moved == p.dense[n]
             d1    == [p.dense EXCEPT ![i] = moved]
             ix1   == [p.index EXCEPT ![moved.entity] = i]
         IN  [p EXCEPT !.dense = SubSeq(d1, 1, n - 1),
                       !.index = [ix1 EXCEPT ![e] = 0]]

PoolClear(p) == [p EXCEPT !.dense = <<>>, !.index = [e \in PoolKey |-> 0]]

\* obj->parent = v through the pointer emplace or get returned for e
PoolWrite(p, e, v) == [p EXCEPT !.dense[p.index[e]].data = v]

\* a for_each that stops one component early
ForEach_StopsEarly(p) == SubSeq(p.dense, 1, Len(p.dense) - 1)

\* for_each(visitor): the components handed to the visitor, in order
ForEach(p) == [i \in 1..Len(p.dense) |-> p.dense[i]]

\* for (auto & w : pool): from begin() to end()
RECURSIVE IterateFrom(_, _)
IterateFrom(p, it) ==
    IF it = Len(p.dense) + 1 THEN <<>>
    ELSE <<p.dense[it]>> \o IterateFrom(p, it + 1)

Iterate(p) == IterateFrom(p, 1)

RECURSIVE SumData(_)
SumData(cs) == IF cs = <<>> THEN 0 ELSE Head(cs).data + SumData(Tail(cs))

\* the pool held by the variables
Pool == [dense |-> pool_dense, index |-> pool_index, cap |-> pool_cap]

SetPool(p) ==
    /\ pool_dense' = p.dense
    /\ pool_index' = p.index
    /\ pool_cap' = p.cap

\* plast: the call just made on the pool, the pointer it returned, whether
\* the entity was in the pool when it was made, and the call before it.
\* pool_live: the entities emplaced and not destroyed or cleared since.
PoolCall(op, e, ret) ==
    [op |-> op, e |-> e, ret |-> ret, had |-> PoolContains(Pool, e),
     prev_op |-> plast.op, prev_e |-> plast.e, prev_had |-> plast.had]

PoolConstructed(hint) ==
    /\ pool_dense = PoolConstruct(hint).dense
    /\ pool_index = PoolConstruct(hint).index
    /\ pool_cap = PoolConstruct(hint).cap
    /\ pool_live = {}
    /\ plast = [op |-> "construct", e |-> 0, ret |-> NullPtr, had |-> FALSE,
                prev_op |-> "none", prev_e |-> 0, prev_had |-> FALSE]

TestIdle == [pc |-> "free", i |-> 0, check |-> 0, sum1 |-> 0, sum2 |-> 0]

pool_emplace(e) ==
    /\ test.pc = "free"
    /\ LET p == PoolEmplace(Pool, e)
       IN  /\ SetPool(p)
           /\ plast' = PoolCall("emplace", e, PoolGet(p, e))
    /\ pool_live' = pool_live \cup {e}
    /\ UNCHANGED <<test, xform_vars, orch_vars, render_vars>>

pool_write(e, v) ==
    /\ test.pc = "free"
    /\ ~PoolGet(Pool, e).null
    /\ SetPool(PoolWrite(Pool, e, v))
    /\ plast' = PoolCall("write", e, PoolGet(Pool, e))
    /\ UNCHANGED <<pool_live, test, xform_vars, orch_vars, render_vars>>

pool_destroy(e) ==
    /\ test.pc = "free"
    /\ SetPool(PoolDestroy(Pool, e))
    /\ plast' = PoolCall("destroy", e, NullPtr)
    /\ pool_live' = pool_live \ {e}
    /\ UNCHANGED <<test, xform_vars, orch_vars, render_vars>>

pool_clear ==
    /\ test.pc = "free"
    /\ SetPool(PoolClear(Pool))
    /\ plast' = PoolCall("clear", 0, NullPtr)
    /\ pool_live' = {}
    /\ UNCHANGED <<test, xform_vars, orch_vars, render_vars>>

(* TEST_CASE("polymer_component_pool add and remove") *)

test_emplace ==
    /\ test.pc = "emplace"
    /\ LET i     == test.i
           value == TestFactor * i
           p     == PoolWrite(PoolEmplace(Pool, i), i, value)
       IN  /\ SetPool(p)
           /\ plast' = PoolCall("emplace", i, PoolGet(p, i))
           /\ pool_live' = pool_live \cup {i}
           /\ test' = IF i + 1 < TestCount
                      THEN [test EXCEPT !.i = i + 1, !.check = @ + value]
                      ELSE [test EXCEPT !.i = DestroyFrom, !.check = @ + value,
                                        !.pc = IF PoolSize(p) = TestCount
                                               THEN "destroy" ELSE "failed"]
    /\ UNCHANGED <<xform_vars, orch_vars, render_vars>>

test_destroy ==
    /\ test.pc = "destroy"
    /\ LET i     == test.i
           value == TestFactor * i
       IN  /\ SetPool(PoolDestroy(Pool, i))
           /\ plast' = PoolCall("destroy", i, NullPtr)
           /\ pool_live' = pool_live \ {i}
           /\ test' = [test EXCEPT !.i = i + 1, !.check = @ - value,
                                   !.pc = IF i + 1 < DestroyTo THEN "destroy" ELSE "for_each"]
    /\ UNCHANGED <<xform_vars, orch_vars, render_vars>>

test_for_each ==
    /\ test.pc = "for_each"
    /\ test' = [test EXCEPT !.sum1 = SumData(ForEach(Pool)), !.pc = "iterate"]
    /\ UNCHANGED <<pool_dense, pool_index, pool_cap, pool_live, plast, xform_vars, orch_vars, render_vars>>

test_iterate ==
    /\ test.pc = "iterate"
    /\ test' = [test EXCEPT !.sum2 = SumData(Iterate(Pool)), !.pc = "require"]
    /\ UNCHANGED <<pool_dense, pool_index, pool_cap, pool_live, plast, xform_vars, orch_vars, render_vars>>

test_require ==
    /\ test.pc = "require"
    /\ test' = [test EXCEPT !.pc =
                   IF /\ test.sum1 = test.check
                      /\ test.sum2 = test.check
                      /\ PoolSize(Pool) = TestCount - DestroyTo + DestroyFrom
                   THEN "passed" ELSE "failed"]
    /\ UNCHANGED <<pool_dense, pool_index, pool_cap, pool_live, plast, xform_vars, orch_vars, render_vars>>

----------------------------------------------------------------------------
(* entity_orchestrator and the systems that register with it.  A system    *)
(* registers for its component types when it is constructed; the           *)
(* orchestrator keeps, per type, the systems registered for it in order of *)
(* registration and hands a create request to each of them.                *)

\* entities used by the calls of OrchSpec: 1..MaxOrchEntity
MaxOrchEntity == 1

\* component values handed to create: 1..MaxOrchData (0: no component)
MaxOrchData == 2

OrchEntity == 1..MaxOrchEntity

OrchData == 1..MaxOrchData

\* two ex_system_one, one ex_system_two, the transform and the render system
System == {"one_a", "one_b", "two", "xform", "pbr"}

Kind(s) ==
    CASE s \in {"one_a", "one_b"} -> "ex_system_one"
      [] s = "two"   -> "ex_system_two"
      [] s = "xform" -> "transform_system"
      [] s = "pbr"   -> "pbr_render_system"

TypeId ==
    {"physics_component", "render_component", "scene_graph_component",
     "world_transform_component", "mesh_component", "material_component",
     "point_light_component", "directional_light_component", "unregistered"}

\* the types the calls of OrchSpec ask for: one type of each system and
\* one no system registers for
TypeArg ==
    {"physics_component", "render_component", "scene_graph_component",
     "mesh_component", "unregistered"}

\* the types a system registers for in its constructor
RegisteredTypes(s) ==
    CASE Kind(s) = "ex_system_one"     -> <<"physics_component">>
      [] Kind(s) = "ex_system_two"     -> <<"render_component">>
      [] Kind(s) = "transform_system"  ->
             <<"scene_graph_component", "world_transform_component">>
      [] Kind(s) = "pbr_render_system" ->
             <<"mesh_component", "material_component", "point_light_component",
               "directional_light_component">>

\* bool create(entity e, poly_typeid hash, void * data) of a system: the
\* value returned and the system's components afterwards
ex_system_one_create(comps, e, hash, data) ==
    IF hash # "physics_component" THEN [ret |-> FALSE, comps |-> comps]
    ELSE [ret |-> TRUE, comps |-> [comps EXCEPT ![e] = data]]

ex_system_two_create(comps, e, hash, data) ==
    IF hash # "render_component" THEN [ret |-> FALSE, comps |-> comps]
    ELSE [ret |-> TRUE, comps |-> [comps EXCEPT ![e] = data]]

transform_system_create(comps, e, hash, data) == [ret |-> TRUE, comps |-> comps]

pbr_render_system_create(comps, e, type, data) == [ret |-> TRUE, comps |-> comps]

\* the entity that stands for "every entity" in destroy
kAllEntities == -1

\* void destroy(entity e) of a system: the system's components afterwards
ex_system_one_destroy(comps, e) == comps

ex_system_two_destroy(comps, e) == comps

\* meshes, materials, point_lights, directional_lights cleared together
pbr_render_system_destroy(comps, e) ==
    IF e = kAllEntities THEN [x \in DOMAIN comps |-> 0] ELSE comps

\* transform_system::destroy looks e up in scene_graph_transforms
transform_system_destroy_throws(e) ==
    \/ e = kInvalidEntity
    \/ e \notin EntityArg
    \/ ~has_transform(e)

\* the virtual call system->create(e, hash, data)
SystemCreate(s, comps, e, hash, data) ==
    CASE Kind(s) = "ex_system_one"     -> ex_system_one_create(comps, e, hash, data)
      [] Kind(s) = "ex_system_two"     -> ex_system_two_create(comps, e, hash, data)
      [] Kind(s) = "transform_system"  -> transform_system_create(comps, e, hash, data)
      [] Kind(s) = "pbr_render_system" -> pbr_render_system_create(comps, e, hash, data)

\* register_system_for_type(system, type)
Register(reg, s, type) == [reg EXCEPT ![type] = Append(@, s)]

RECURSIVE RegisterAll(_, _, _)
RegisterAll(reg, s, types) ==
    IF types = <<>> THEN reg
    ELSE RegisterAll(Register(reg, s, Head(types)), s, Tail(types))

\* the systems a create request is handed to, in order, with the components
\* of every system afterwards
RECURSIVE Deliver(_, _, _, _, _, _)
Deliver(systems, comps, e, type, data, acc) ==
    IF systems = <<>> THEN [comps |-> comps, results |-> acc]
    ELSE LET s == Head(systems)
             r == SystemCreate(s, comps[s], e, type, data)
         IN  Deliver(Tail(systems), [comps EXCEPT ![s] = r.comps], e, type, data,
                     Append(acc, <<s, r.ret>>))

\* a submit_create that stops at the first system that accepts
RECURSIVE DeliverUntilAccepted(_, _, _, _, _, _)
DeliverUntilAccepted(systems, comps, e, type, data, acc) ==
    IF systems = <<>> THEN [comps |-> comps, results |-> acc]
    ELSE LET s == Head(systems)
             r == SystemCreate(s, comps[s], e, type, data)
         IN  IF r.ret
             THEN [comps |-> [comps EXCEPT ![s] = r.comps],
                   results |-> Append(acc, <<s, r.ret>>)]
             ELSE DeliverUntilAccepted(Tail(systems), [comps EXCEPT ![s] = r.comps],
                                       e, type, data, Append(acc, <<s, r.ret>>))

\* a submit_create that stops at the first system that accepts
SubmitCreate_StopsAtFirst(reg, comps, e, type, data) ==
    LET d == DeliverUntilAccepted(reg[type], comps, e, type, data, <<>>)
    IN  [ret |-> \E i \in 1..Len(d.results) : d.results[i][2],
         comps |-> d.comps, results |-> d.results]

\* a submit_create that reports success whatever the systems return
SubmitCreate_AlwaysTrue(reg, comps, e, type, data) ==
    LET d == Deliver(reg[type], comps, e, type, data, <<>>)
    IN  [ret |-> TRUE, comps |-> d.comps, results |-> d.results]

\* submit_create(entity, type_id, data): every system registered for the
\* type gets the request; true if at least one of them returned true
SubmitCreate(reg, comps, e, type, data) ==
    LET d == Deliver(reg[type], comps, e, type, data, <<>>)
    IN  [ret |-> \E i \in 1..Len(d.results) : d.results[i][2],
         comps |-> d.comps, results |-> d.results]

NoComponents == [e \in OrchEntity |-> 0]

OrchCall(op, s, e, type, data, ret, results) ==
    [op |-> op, sys |-> s, e |-> e, type |-> type, data |-> data,
     ret |-> ret, results |-> results,
     threw |-> FALSE]

OrchConstructed ==
    /\ orch_registry = [t \in TypeId |-> <<>>]
    /\ sys_components = [s \in System |-> NoComponents]
    /\ olast = OrchCall("construct", "none", 0, "unregistered", 0, FALSE, <<>>)

Constructed(s) ==
    \E t \in TypeId : \E i \in 1..Len(orch_registry[t]) : orch_registry[t][i] = s

\* a system is constructed on the orchestrator
construct_system(s) ==
    /\ ~Constructed(s)
    /\ orch_registry' = RegisterAll(orch_registry, s, RegisteredTypes(s))
    /\ olast' = OrchCall("construct_system", s, 0, "unregistered", 0, FALSE, <<>>)
    /\ UNCHANGED <<sys_components, xform_vars, pool_vars, render_vars>>

submit_create(e, type, data) ==
    /\ LET r == SubmitCreate(orch_registry, sys_components, e, type, data)
       IN  /\ sys_components' = r.comps
           /\ olast' = OrchCall("submit_create", "none", e, type, data, r.ret, r.results)
    /\ UNCHANGED <<orch_registry, xform_vars, pool_vars, render_vars>>

\* create called on one system directly
system_create(s, e, type, data) ==
    /\ Constructed(s)
    /\ LET r == SystemCreate(s, sys_components[s], e, type, data)
       IN  /\ sys_components' = [sys_components EXCEPT ![s] = r.comps]
           /\ olast' = OrchCall("system_create", s, e, type, data, r.ret, <<<<s, r.ret>>>>)
    /\ UNCHANGED <<orch_registry, xform_vars, pool_vars, render_vars>>

\* destroy called on one system directly
system_destroy(s, e) ==
    /\ Constructed(s)
    /\ UNCHANGED <<orch_registry, pool_vars, last, calls, render_vars>>
    /\ IF Kind(s) = "transform_system"
       THEN IF transform_system_destroy_throws(e)
            THEN /\ olast' = [OrchCall("system_destroy", s, e, "unregistered", 0, FALSE, <<>>)
                                 EXCEPT !.threw = TRUE]
                 /\ UNCHANGED <<sys_components, scene_graph_transforms,
                                world_transforms, erase_log>>
            ELSE LET st == destroy_recursive(scene_graph_transforms, world_transforms,
                                             <<>>, e, {})
                 IN  /\ scene_graph_transforms' = st.sg
                     /\ world_transforms' = st.wt
                     /\ erase_log' = st.log
                     /\ olast' = OrchCall("system_destroy", s, e, "unregistered", 0,
                                          FALSE, <<>>)
                     /\ UNCHANGED sys_components
       ELSE /\ sys_components' =
                 [sys_components EXCEPT ![s] =
                     CASE Kind(s) = "ex_system_one" -> ex_system_one_destroy(@, e)
                       [] Kind(s) = "ex_system_two" -> ex_system_two_destroy(@, e)
                       [] Kind(s) = "pbr_render_system" -> pbr_render_system_destroy(@, e)]
            /\ olast' = OrchCall("system_destroy", s, e, "unregistered", 0, FALSE, <<>>)
            /\ UNCHANGED <<scene_graph_transforms, world_transforms, erase_log>>

----------------------------------------------------------------------------
(* pbr_render_system: the settings it is constructed with, the per-camera  *)
(* texture arrays, the component maps it draws from, and the shadow        *)
(* cascades it owns.                                                       *)

\* settings.cameraCount is 1..MaxCameras
MaxCameras == 2

\* entities that can be in a render_set: 1..MaxRenderEntity
MaxRenderEntity == 3

\* number of point lights the system holds: 0..MaxLights
MaxLights == 5

\* uniforms::MAX_POINT_LIGHTS
MAX_POINT_LIGHTS == 4

\* uniforms::NUM_CASCADES
NUM_CASCADES == 2

RenderEntity == 1..MaxRenderEntity

Settings ==
    [cameraCount : 1..MaxCameras, shadowsEnabled : BOOLEAN,
     useDepthPrepass : BOOLEAN, tonemapEnabled : BOOLEAN]

RECURSIVE SeqsUpTo(_, _)
SeqsUpTo(S, n) ==
    IF n = 0 THEN {<<>>}
    ELSE LET shorter == SeqsUpTo(S, n - 1)
         IN  shorter \cup {Append(q, x) : q \in shorter, x \in S}

\* stable_cascaded_shadows(): every list empty, splitLambda one half
\* (in units of 1 / LambdaDen)
NoCascades ==
    [splitLambda |-> 2, splitPlanes |-> <<>>, nearPlanes |-> <<>>, farPlanes |-> <<>>,
     viewMatrices |-> <<>>, projMatrices |-> <<>>, shadowMatrices |-> <<>>]

\* pbr_render_system(orch, settings): the arrays are sized by cameraCount,
\* the post textures only when tonemapEnabled; point_lights holds one
\* `enabled' flag per light in iteration order, directional_lights the
\* number of directional lights, materials the material of every entity
RendererConstructed(settings, lights, sun, mats) ==
    /\ renderer = [settings |-> settings,
                   eyeTextures |-> settings.cameraCount,
                   eyeDepthTextures |-> settings.cameraCount,
                   postTextures |-> IF settings.tonemapEnabled
                                    THEN settings.cameraCount ELSE 0,
                   point_lights |-> lights,
                   directional_lights |-> sun,
                   materials |-> mats]
    /\ shadow = NoCascades

\* what a call returned: the frame a render_frame produced, or the texture
\* a query returned
NoFrame ==
    [log |-> <<>>, list |-> <<>>, shadow_draws |-> <<>>,
     activePointLights |-> 0, written |-> 0, dist |-> <<>>]

RenderCall(op, idx, res, frame) ==
    [op |-> op, idx |-> idx, res |-> res, frame |-> frame,
     render_set |-> <<>>, clip |-> <<0, 0>>]

DefaultMaterials == [e \in RenderEntity |-> [id |-> 1, cast_shadow |-> TRUE]]

RenderIdle ==
    /\ RendererConstructed([cameraCount |-> 1, shadowsEnabled |-> FALSE,
                            useDepthPrepass |-> FALSE, tonemapEnabled |-> FALSE],
                           <<>>, 0, DefaultMaterials)
    /\ rlast = RenderCall("construct", 0, "ok", NoFrame)

\* assert(idx <= settings.cameraCount); return textures[idx];
TextureAt(size, idx, cameraCount) ==
    IF ~(idx <= cameraCount) THEN "assert"
    ELSE IF idx < size THEN "texture" ELSE "out_of_bounds"

get_color_texture(idx) ==
    /\ rlast' = RenderCall("get_color_texture", idx,
                           IF renderer.settings.tonemapEnabled
                           THEN TextureAt(renderer.postTextures, idx,
                                          renderer.settings.cameraCount)
                           ELSE TextureAt(renderer.eyeTextures, idx,
                                          renderer.settings.cameraCount),
                           NoFrame)
    /\ UNCHANGED <<renderer, shadow, xform_vars, pool_vars, orch_vars>>

get_depth_texture(idx) ==
    /\ rlast' = RenderCall("get_depth_texture", idx,
                           TextureAt(renderer.eyeDepthTextures, idx,
                                     renderer.settings.cameraCount),
                           NoFrame)
    /\ UNCHANGED <<renderer, shadow, xform_vars, pool_vars, orch_vars>>

(* stable_cascaded_shadows::update_cascades.  Distances are kept exact:    *)
(* far = near * ratio^NUM_CASCADES, so that pow(far / near, C / N) is      *)
(* ratio^C, splitLambda is LambdaNum / LambdaDen, and every split distance *)
(* is stored multiplied by SplitScale.                                     *)

\* camera near plane: 1..MaxNear
MaxNear == 4

\* far = near * ratio^NUM_CASCADES with ratio in 2..MaxRatio
MaxRatio == 4

\* consecutive update_cascades calls counted up to MaxCascadeCalls
MaxCascadeCalls == 3

\* splitLambda is a multiple of 1 / LambdaDen in [0, 1]
LambdaDen == 4

SplitScale == NUM_CASCADES * LambdaDen

RECURSIVE Pow(_, _)
Pow(b, n) == IF n = 0 THEN 1 ELSE b * Pow(b, n - 1)

FarOf(near, ratio) == near * Pow(ratio, NUM_CASCADES)

\* mix(near + (C / N) * (far - near), near * pow(far / near, C / N), splitLambda),
\* times SplitScale
PracticalSplit(lambda, near, ratio, C) ==
    LET far     == FarOf(near, ratio)
        linear  == NUM_CASCADES * near + C * (far - near)
        logarit == NUM_CASCADES * near * Pow(ratio, C)
    IN  linear * (LambdaDen - lambda) + logarit * lambda

splitNear(lambda, near, ratio, C) ==
    IF C > 0 THEN PracticalSplit(lambda, near, ratio, C) ELSE SplitScale * near

splitFar(lambda, near, ratio, C) ==
    IF C < NUM_CASCADES - 1 THEN PracticalSplit(lambda, near, ratio, C + 1)
    ELSE SplitScale * FarOf(near, ratio)

\* the body of the loop for cascade C: one push_back on every list.  The
\* matrices and the sphere extents are kept as the values they are made of.
RECURSIVE PushCascades(_, _, _, _, _)
PushCascades(sh, near, ratio, lightDir, C) ==
    IF ~(C < NUM_CASCADES) THEN sh
    ELSE LET split  == <<splitNear(sh.splitLambda, near, ratio, C),
                         splitFar(sh.splitLambda, near, ratio, C)>>
             matrix == [cascade |-> C, split |-> split, lightDir |-> lightDir]
         IN  PushCascades(
                 [sh EXCEPT !.viewMatrices = Append(@, matrix),
                            !.projMatrices = Append(@, matrix),
                            !.shadowMatrices = Append(@, matrix),
                            !.splitPlanes = Append(@, split),
                            !.nearPlanes = Append(@, matrix),
                            !.farPlanes = Append(@, matrix)],
                 near, ratio, lightDir, C + 1)

\* an update that pushes onto the lists of the frame before
UpdateCascades_NoClear(sh, near, ratio, lightDir) ==
    PushCascades(sh, near, ratio, lightDir, 0)

\* the six clear() calls, then the loop
UpdateCascades(sh, near, ratio, lightDir) ==
    PushCascades([sh EXCEPT !.nearPlanes = <<>>, !.farPlanes = <<>>,
                            !.splitPlanes = <<>>, !.viewMatrices = <<>>,
                            !.projMatrices = <<>>, !.shadowMatrices = <<>>],
                 near, ratio, lightDir, 0)

\* update_cascades called on the shadow object
update_cascades(near, ratio, lightDir) ==
    /\ shadow' = UpdateCascades(shadow, near, ratio, lightDir)
    /\ rlast' = [RenderCall("update_cascades",
                            IF rlast.op = "update_cascades" /\ rlast.idx < MaxCascadeCalls
                            THEN rlast.idx + 1
                            ELSE IF rlast.op = "update_cascades" THEN rlast.idx ELSE 1,
                            "ok", NoFrame)
                    EXCEPT !.clip = <<near, FarOf(near, ratio)>>]
    /\ UNCHANGED <<renderer, xform_vars, pool_vars, orch_vars>>

(* render_frame.  A scene (render_payload) gives the number of views, the  *)
(* render_set and, through the transform system, a world position for      *)
(* every entity; positions lie on one axis, eye i stands at 2 * i, and     *)
(* positions and distances are kept doubled so that the midpoint between   *)
(* the eyes is exact.                                                      *)

\* entity world positions: 0..MaxPos
MaxPos == 2

Abs(x) == IF x < 0 THEN 0 - x ELSE x

\* scene.views[i].pose.position, doubled
EyePos(i) == 2 * (2 * i)

\* shadowAndCullingView.pose.position, doubled: views[0], or the midpoint
\* between the eyes when cameraCount == 2
CullingPos(cameraCount) ==
    IF cameraCount = 2 THEN (EyePos(0) + EyePos(1)) \div 2 ELSE EyePos(0)

\* distance(shadowAndCullingView.pose.position, world_pose.position), doubled
Distance(cameraCount, pos) == Abs(CullingPos(cameraCount) - 2 * pos)

\* materialSortFunc(lhs, rhs)
materialSortFunc(mats, dist, lhs, rhs) ==
    LET lDist == dist[lhs]
        rDist == dist[rhs]
        lid   == mats[lhs].id
        rid   == mats[rhs].id
    IN  IF lid # rid THEN lid > rid ELSE lDist < rDist

(* std::priority_queue over a vector: push is push_back + push_heap, pop   *)
(* is pop_heap + pop_back; h[1] is top().                                  *)

RECURSIVE SiftUp(_, _, _, _, _)
SiftUp(mats, dist, h, hole, value) ==
    IF hole > 1 /\ materialSortFunc(mats, dist, h[hole \div 2], value)
    THEN SiftUp(mats, dist, [h EXCEPT ![hole] = h[hole \div 2]], hole \div 2, value)
    ELSE [h EXCEPT ![hole] = value]

QueuePush(mats, dist, h, x) == SiftUp(mats, dist, Append(h, x), Len(h) + 1, x)

RECURSIVE SiftDown(_, _, _, _, _)
SiftDown(mats, dist, h, hole, value) ==
    IF 2 * hole + 1 <= Len(h)
    THEN LET right == 2 * hole + 1
             c     == IF materialSortFunc(mats, dist, h[right], h[right - 1])
                      THEN right - 1 ELSE right
         IN  SiftDown(mats, dist, [h EXCEPT ![hole] = h[c]], c, value)
    ELSE IF 2 * hole = Len(h)
    THEN SiftUp(mats, dist, [h EXCEPT ![hole] = h[2 * hole]], 2 * hole, value)
    ELSE SiftUp(mats, dist, h, hole, value)

QueuePop(mats, dist, h) ==
    IF Len(h) <= 1 THEN <<>>
    ELSE SiftDown(mats, dist, SubSeq(h, 1, Len(h) - 1), 1, h[Len(h)])

RECURSIVE PushAll(_, _, _, _)
PushAll(mats, dist, h, render_set) ==
    IF render_set = <<>> THEN h
    ELSE PushAll(mats, dist, QueuePush(mats, dist, h, Head(render_set)), Tail(render_set))

\* while (!queue.empty()) { list.push_back(queue.top()); queue.pop(); }
RECURSIVE Flatten(_, _, _)
Flatten(mats, dist, h) ==
    IF h = <<>> THEN <<>>
    ELSE <<h[1]>> \o Flatten(mats, dist, QueuePop(mats, dist, h))

\* the materialRenderList of a frame
MaterialRenderList(mats, dist, render_set) ==
    Flatten(mats, dist, PushAll(mats, dist, <<>>, render_set))

\* the point light loop: the number of slots of b.point_lights written
RECURSIVE WriteLights(_, _)
WriteLights(lights, lightIdx) ==
    IF lights = <<>> THEN lightIdx
    ELSE IF ~Head(lights) THEN WriteLights(Tail(lights), lightIdx)
    ELSE WriteLights(Tail(lights), lightIdx + 1)

Pass(name, view) == [pass |-> name, view |-> view]

\* the entities run_shadow_pass draws
RECURSIVE ShadowDraws(_, _)
ShadowDraws(mats, render_set) ==
    IF render_set = <<>> THEN <<>>
    ELSE IF mats[Head(render_set)].cast_shadow
         THEN <<Head(render_set)>> \o ShadowDraws(mats, Tail(render_set))
         ELSE ShadowDraws(mats, Tail(render_set))

\* a shadow test that looks at the setting only
ShadowPassRuns_NoLightCheck(settings, sun) == settings.shadowsEnabled

\* if (settings.shadowsEnabled) if (!directional_lights.empty())
ShadowPassRuns(settings, sun) == settings.shadowsEnabled /\ sun # 0

\* a view loop that runs the post pass of a view before resolving it
ViewPasses_PostInside(settings, camIdx) ==
    <<Pass("per_view_upload", camIdx), Pass("clear", camIdx)>>
    \o (IF settings.useDepthPrepass THEN <<Pass("depth_prepass", camIdx)>> ELSE <<>>)
    \o <<Pass("skybox", camIdx), Pass("forward", camIdx)>>
    \o (IF settings.tonemapEnabled THEN <<Pass("post", camIdx)>> ELSE <<>>)
    \o <<Pass("resolve", camIdx)>>

\* the body of the camIdx loop
ViewPasses(settings, camIdx) ==
    <<Pass("per_view_upload", camIdx), Pass("clear", camIdx)>>
    \o (IF settings.useDepthPrepass THEN <<Pass("depth_prepass", camIdx)>> ELSE <<>>)
    \o <<Pass("skybox", camIdx), Pass("forward", camIdx), Pass("resolve", camIdx)>>

RECURSIVE ViewLoop(_, _)
ViewLoop(settings, camIdx) ==
    IF ~(camIdx < settings.cameraCount) THEN <<>>
    ELSE ViewPasses(settings, camIdx) \o ViewLoop(settings, camIdx + 1)

\* run_post_pass returns at once unless tonemapEnabled
RECURSIVE PostLoop(_, _)
PostLoop(settings, camIdx) ==
    IF ~(camIdx < settings.cameraCount) THEN <<>>
    ELSE (IF settings.tonemapEnabled THEN <<Pass("post", camIdx)>> ELSE <<>>)
         \o PostLoop(settings, camIdx + 1)

Scene(views, render_set, pos) == [views |-> views, render_set |-> render_set, pos |-> pos]

\* near plane, far / near ratio and sun direction of the view of a frame
FrameNear == 1

FrameRatio == 2

FrameLightDir == 1

render_frame(scene) ==
    LET settings == renderer.settings
        sun      == renderer.directional_lights
        lights   == renderer.point_lights
        mats     == renderer.materials
        dist     == [e \in RenderEntity |-> Distance(settings.cameraCount, scene.pos[e])]
        shadows  == ShadowPassRuns(settings, sun)
        list     == MaterialRenderList(mats, dist, scene.render_set)
        frame    == [log |-> (IF shadows THEN <<Pass("shadow", -1)>> ELSE <<>>)
                             \o <<Pass("per_scene_upload", -1)>>
                             \o ViewLoop(settings, 0)
                             \o PostLoop(settings, 0),
                     list |-> list,
                     shadow_draws |-> IF shadows THEN ShadowDraws(mats, scene.render_set)
                                      ELSE <<>>,
                     activePointLights |-> Len(lights),
                     written |-> WriteLights(lights, 0),
                     dist |-> dist]
    IN  /\ UNCHANGED <<renderer, xform_vars, pool_vars, orch_vars>>
        /\ IF settings.cameraCount # scene.views \/ ~(Len(lights) <= MAX_POINT_LIGHTS)
           THEN /\ rlast' = RenderCall("render_frame", scene.views, "assert", NoFrame)
                /\ UNCHANGED shadow
           ELSE /\ rlast' = [RenderCall("render_frame", scene.views, "ok", frame)
                               EXCEPT !.render_set = scene.render_set]
                /\ shadow' = IF shadows
                             THEN UpdateCascades(shadow, FrameNear, FrameRatio, FrameLightDir)
                             ELSE shadow

----------------------------------------------------------------------------
(* Specifications *)

\* material ids: 1..MaxMaterialId
MaxMaterialId == 2

\* render sets: the sequences of distinct entities
RenderSets ==
    {s \in SeqsUpTo(RenderEntity, MaxRenderEntity) :
        \A i, j \in 1..Len(s) : s[i] = s[j] => i = j}

\* a renderer with any settings, sun and shadow casters
RenderInit ==
    /\ TransformInit
    /\ PoolConstructed(PoolReserve)
    /\ test = TestIdle
    /\ OrchConstructed
    /\ \E settings \in Settings, sun \in 0..1, cast \in [RenderEntity -> BOOLEAN] :
          RendererConstructed(settings, <<>>, sun,
                              [e \in RenderEntity |-> [id |-> 1, cast_shadow |-> cast[e]]])
    /\ rlast = RenderCall("construct", 0, "ok", NoFrame)

RenderNext ==
    \/ \E views \in 1..MaxCameras, render_set \in RenderSets :
           render_frame(Scene(views, render_set, [e \in RenderEntity |-> 0]))
    \/ \E idx \in 0..(MaxCameras + 1) : get_color_texture(idx)
    \/ \E idx \in 0..(MaxCameras + 1) : get_depth_texture(idx)

RenderSpec == RenderInit /\ [][RenderNext]_vars

\* a renderer without lights whose entities have any material, drawing
\* scenes with the entities at any position
QueueInit ==
    /\ TransformInit
    /\ PoolConstructed(PoolReserve)
    /\ test = TestIdle
    /\ OrchConstructed
    /\ \E cameraCount \in 1..MaxCameras, id \in [RenderEntity -> 1..MaxMaterialId] :
          RendererConstructed([cameraCount |-> cameraCount, shadowsEnabled |-> FALSE,
                               useDepthPrepass |-> FALSE, tonemapEnabled |-> FALSE],
                              <<>>, 0,
                              [e \in RenderEntity |-> [id |-> id[e], cast_shadow |-> TRUE]])
    /\ rlast = RenderCall("construct", 0, "ok", NoFrame)

QueueNext ==
    \E render_set \in RenderSets, pos \in [RenderEntity -> 0..MaxPos] :
        render_frame(Scene(renderer.settings.cameraCount, render_set, pos))

QueueSpec == QueueInit /\ [][QueueNext]_vars

\* a renderer with any point lights, enabled or not
LightInit ==
    /\ TransformInit
    /\ PoolConstructed(PoolReserve)
    /\ test = TestIdle
    /\ OrchConstructed
    /\ \E cameraCount \in 1..MaxCameras, lights \in SeqsUpTo(BOOLEAN, MaxLights) :
          RendererConstructed([cameraCount |-> cameraCount, shadowsEnabled |-> FALSE,
                               useDepthPrepass |-> FALSE, tonemapEnabled |-> FALSE],
                              lights, 0, DefaultMaterials)
    /\ rlast = RenderCall("construct", 0, "ok", NoFrame)

LightNext ==
    \E views \in 1..MaxCameras :
        render_frame(Scene(views, <<>>, [e \in RenderEntity |-> 0]))

LightSpec == LightInit /\ [][LightNext]_vars

\* a shadow object with any splitLambda, updated again and again
CascadeInit ==
    /\ TransformInit
    /\ PoolConstructed(PoolReserve)
    /\ test = TestIdle
    /\ OrchConstructed
    /\ renderer = [settings |-> [cameraCount |-> 1, shadowsEnabled |-> TRUE,
                                 useDepthPrepass |-> FALSE, tonemapEnabled |-> FALSE],
                   eyeTextures |-> 1, eyeDepthTextures |-> 1, postTextures |-> 0,
                   point_lights |-> <<>>, directional_lights |-> 1,
                   materials |-> DefaultMaterials]
    /\ \E lambda \in 0..LambdaDen : shadow = [NoCascades EXCEPT !.splitLambda = lambda]
    /\ rlast = RenderCall("construct", 0, "ok", NoFrame)

CascadeNext ==
    \E near \in 1..MaxNear, ratio \in 2..MaxRatio, lightDir \in 1..2 :
        update_cascades(near, ratio, lightDir)

CascadeSpec == CascadeInit /\ [][CascadeNext]_vars


Init ==
    /\ TransformInit
    /\ PoolConstructed(PoolReserve)
    /\ test = TestIdle
    /\ OrchConstructed
    /\ RenderIdle

Next ==
    \/ \E e \in Entity, x \in XformArgs : create(e, x[1], x[2])
    \/ \E p \in EntityArg, c \in EntityArg : add_child(p, c)
    \/ \E c \in EntityArg : remove_parent(c)
    \/ \E e \in EntityArg : destroy(e)

Spec == Init /\ [][Next]_vars

\* a pool constructed with any small hint and then called freely, or the
\* pool of the "add and remove" test case
PoolInit ==
    /\ TransformInit
    /\ \/ /\ \E hint \in 0..MaxHint : PoolConstructed(hint)
          /\ test = TestIdle
       \/ /\ PoolConstructed(PoolReserve)
          /\ test = [TestIdle EXCEPT !.pc = "emplace"]
    /\ OrchConstructed
    /\ RenderIdle

PoolNext ==
    \/ \E e \in PoolEntity : pool_emplace(e)
    \/ \E e \in PoolEntity, v \in 0..MaxData : pool_write(e, v)
    \/ \E e \in PoolEntity : pool_destroy(e)
    \/ pool_clear
    \/ test_emplace
    \/ test_destroy
    \/ test_for_each
    \/ test_iterate
    \/ test_require

PoolSpec == PoolInit /\ [][PoolNext]_vars

OrchInit ==
    /\ TransformInit
    /\ PoolConstructed(PoolReserve)
    /\ test = TestIdle
    /\ OrchConstructed
    /\ RenderIdle

OrchNext ==
    \/ \E s \in System : construct_system(s)
    \/ \E e \in OrchEntity, t \in TypeArg, d \in OrchData : submit_create(e, t, d)
    \/ \E s \in System, e \in OrchEntity, t \in TypeArg, d \in OrchData :
           system_create(s, e, t, d)
    \/ \E s \in System, e \in OrchEntity \cup {kAllEntities} : system_destroy(s, e)

OrchSpec == OrchInit /\ [][OrchNext]_vars

----------------------------------------------------------------------------
(* Derived notions used by the properties *)

Returned == last.res # "stack_overflow"

\* an entity created through create and not destroyed: a record in each map
Attached(e) == scene_graph_transforms[e].present /\ world_transforms[e].present

\* everything reachable from e through children vectors
RECURSIVE Reach(_, _, _)
Reach(sg, frontier, seen) ==
    LET next == UNION {SeqToSet(sg[x].children) : x \in frontier} \ seen
    IN  IF next = {} THEN seen ELSE Reach(sg, next, seen \cup next)

Descendants(sg, e) == Reach(sg, {e}, {})

\* local pose of e composed with the local poses of its ancestors
RECURSIVE ChainPose(_, _, _)
ChainPose(sg, e, fuel) ==
    IF sg[e].parent = kInvalidEntity \/ fuel = 0 THEN sg[e].local_pose
    ELSE PoseMul(sg[e].local_pose, ChainPose(sg, sg[e].parent, fuel - 1))

\* following parent links from e reaches kInvalidEntity
RECURSIVE ReachesRoot(_, _, _)
ReachesRoot(sg, e, fuel) ==
    IF e = kInvalidEntity THEN TRUE
    ELSE IF fuel = 0 THEN FALSE
    ELSE ReachesRoot(sg, sg[e].parent, fuel - 1)

\* what one recompute step stores for e
RecomputedPose(sg, e) ==
    IF sg[e].parent # kInvalidEntity
    THEN PoseMul(sg[e].local_pose, sg[sg[e].parent].local_pose)
    ELSE sg[e].local_pose

----------------------------------------------------------------------------
(* Claims *)

\* C1: right after a successful add_child(parent, child) the child's world
\* pose is its local pose composed with the parent's current world pose.
C1_AddChildWorldPose ==
    (last.op = "add_child" /\ last.res = "ok") =>
        /\ get_world_transform(last.b).present
        /\ get_world_transform(last.a).present
        /\ get_world_transform(last.b).world_pose =
               PoseMul(scene_graph_transforms[last.b].local_pose,
                       get_world_transform(last.a).world_pose)

\* C2: whenever a call has returned, the cached world pose of every attached
\* entity is its local pose composed with the local poses of all its
\* ancestors along the parent chain (its local pose for a root).
C2_WorldCacheFresh ==
    Returned =>
        \A e \in Entity :
            Attached(e) =>
                world_transforms[e].world_pose =
                    ChainPose(scene_graph_transforms, e, NumEntities)

\* C3: whenever a call has returned, parent fields and children vectors
\* agree: b occurs in children(a) once if parent(b) = a and not at all
\* otherwise, and every entity named by a parent field or a children vector
\* has a transform.
C3_ParentChildrenAgree ==
    Returned =>
        \A a \in Entity :
            has_transform(a) =>
                /\ \A b \in Entity :
                       has_transform(b) =>
                           Count(scene_graph_transforms[a].children, b) =
                               (IF scene_graph_transforms[b].parent = a THEN 1 ELSE 0)
                /\ \A c \in SeqToSet(scene_graph_transforms[a].children) :
                       c # kInvalidEntity /\ has_transform(c)
                /\ scene_graph_transforms[a].parent # kInvalidEntity =>
                       has_transform(scene_graph_transforms[a].parent)

\* C4: the parent links form a forest in every state, and an add_child that
\* would close a cycle ends with invalid-argument instead of linking.
C4_Forest ==
    /\ \A e \in Entity :
           has_transform(e) => ReachesRoot(scene_graph_transforms, e, NumEntities + 1)
    /\ (last.op = "add_child" /\ last.a = last.b) => last.res = "invalid_argument"
    /\ last.res # "stack_overflow"

\* C5: a successful destroy(e) leaves e and everything reachable from e
\* through children vectors without a record in either map, erases every
\* entity only after all its children, e last, and leaves the records of
\* every entity outside the subtree as they were.
C5_DestroySubtree ==
    [][ (last'.op = "destroy" /\ last'.res = "ok") =>
          LET e    == last'.a
              tree == Descendants(scene_graph_transforms, e) \cup {e}
              log  == erase_log'
          IN  /\ \A d \in tree :
                     /\ ~scene_graph_transforms'[d].present
                     /\ ~world_transforms'[d].present
                     /\ \E i \in 1..Len(log) : log[i] = d
              /\ log # <<>> /\ log[Len(log)] = e
              /\ \A i \in 1..Len(log) :
                     \A c \in SeqToSet(scene_graph_transforms[log[i]].children) :
                         \E j \in 1..(i - 1) : log[j] = c
              /\ \A x \in EntityArg \ tree :
                     /\ scene_graph_transforms'[x] = scene_graph_transforms[x]
                     /\ world_transforms'[x] = world_transforms[x]
      ]_vars

\* a destroy has just removed an entity together with a descendant while
\* another entity keeps its transform
C5_Witness ==
    /\ last.op = "destroy" /\ last.res = "ok"
    /\ Len(erase_log) >= 2
    /\ \E x \in Entity : Attached(x)

\* C6: with B a child of A, a second create(A, newPose, scale) brings B's
\* world pose to B's local pose composed with A's new pose, and B is still
\* a child of A.
C6_CreatePropagates ==
    [][ (last'.op = "create" /\ last'.res = "ok") =>
          LET A == last'.a
          IN  \A B \in Entity \ {A} :
                  ( /\ Attached(A) /\ Attached(B)
                    /\ scene_graph_transforms[B].parent = A
                    /\ B \in SeqToSet(scene_graph_transforms[A].children) )
                  =>
                  ( /\ world_transforms'[B].world_pose =
                           PoseMul(scene_graph_transforms[B].local_pose, last'.x[1])
                    /\ scene_graph_transforms'[B].parent = A
                    /\ B \in SeqToSet(scene_graph_transforms'[A].children) )
      ]_vars

\* C7: create always returns true, on an absent and on an attached entity;
\* afterwards the entity has a transform, no parent, the given local pose
\* and scale, and a world pose equal to the given pose.
C7_CreateSucceeds ==
    last.op = "create" =>
        /\ last.res = "ok"
        /\ has_transform(last.a)
        /\ get_parent(last.a) = kInvalidEntity
        /\ get_local_transform(last.a).present
        /\ get_local_transform(last.a).local_pose = last.x[1]
        /\ get_local_transform(last.a).local_scale = last.x[2]
        /\ get_world_transform(last.a).present
        /\ get_world_transform(last.a).world_pose = last.x[1]

\* a create has just re-initialised an entity that already had a transform,
\* with a pose other than the identity
C7_Witness ==
    /\ last.op = "create" /\ last.had /\ last.res = "ok"
    /\ last.x[1] # Identity
    /\ get_world_transform(last.a).world_pose = last.x[1]

C9_AddChildRejects ==
    [][ ( /\ last'.op = "add_child"
          /\ \/ last'.a = kInvalidEntity
             \/ last'.b = kInvalidEntity
             \/ ~has_transform(last'.a)
             \/ ~has_transform(last'.b) )
        =>
        ( /\ last'.res = "invalid_argument"
          /\ UNCHANGED <<scene_graph_transforms, world_transforms>> )
      ]_vars

\* an add_child on an attached parent and a child without a transform has
\* just been rejected
C9_Witness ==
    /\ last.op = "add_child" /\ last.res = "invalid_argument"
    /\ last.had /\ last.b # kInvalidEntity /\ ~has_transform(last.b)

\* C10: destroy of kInvalidEntity or of an entity without a transform ends
\* with invalid-argument and removes nothing; a destroy(e) right after a
\* successful destroy(e) therefore fails.
C10_DestroyRejects ==
    [][ last'.op = "destroy" =>
          /\ (last'.a = kInvalidEntity \/ ~has_transform(last'.a)) =>
                 /\ last'.res = "invalid_argument"
                 /\ UNCHANGED <<scene_graph_transforms, world_transforms>>
          /\ (last.op = "destroy" /\ last.res = "ok" /\ last.a = last'.a) =>
                 last'.res = "invalid_argument"
      ]_vars

\* a destroy(e) has just been rejected after a successful destroy(e) with no
\* other call than destroy in between
C10_Witness ==
    /\ last.op = "destroy" /\ last.res = "invalid_argument"
    /\ last.a # kInvalidEntity
    /\ erase_log # <<>> /\ erase_log[Len(erase_log)] = last.a

\* C11: an entity without a transform, and kInvalidEntity, stays without
\* one through every call other than a create of it: has_transform is
\* false, get_world_transform and get_local_transform are null and
\* get_parent is kInvalidEntity after the call.
C11_AbsentStaysAbsent ==
    [][ \A e \in EntityArg :
          ( /\ ~scene_graph_transforms[e].present
            /\ ~world_transforms[e].present
            /\ ~(last'.op = "create" /\ last'.a = e) )
          =>
          ( /\ ~has_transform(e)'
            /\ ~get_world_transform(e)'.present
            /\ ~get_local_transform(e)'.present
            /\ get_parent(e)' = kInvalidEntity )
      ]_vars

----------------------------------------------------------------------------
(* polymer_component_pool *)

\* the payloads stored in `dense' for entity e
DataOf(dense, e) == {dense[i].data : i \in {j \in 1..Len(dense) : dense[j].entity = e}}

\* how many of the components cs belong to entity e
Visits(cs, e) == Cardinality({i \in 1..Len(cs) : cs[i].entity = e})

\* C12: emplace(e) on an entity that is already live leaves size() unchanged
\* and returns the component the earlier emplace(e) created, with the data
\* written to it since; and the pool never holds two components of one entity.
C12_EmplaceIdempotent ==
    /\ [](\A e \in PoolKey : Visits(pool_dense, e) <= 1)
    /\ [][ (plast'.op = "emplace" /\ plast'.e \in pool_live)
           =>
           ( /\ PoolSize(Pool)' = PoolSize(Pool)
             /\ pool_dense' = pool_dense
             /\ plast'.ret = PoolGet(Pool, plast'.e) )
         ]_vars

\* emplace on a live entity whose component had been written to, with
\* another entity in the pool
C12_Witness ==
    /\ plast.op = "emplace"
    /\ plast.had
    /\ plast.ret.data # 0
    /\ PoolSize(Pool) = 2

\* C13: size() is the number of distinct entities emplaced and not destroyed
\* or cleared since; it is 0 after construction, whatever the capacity hint,
\* and 0 after clear().
C13_SizeIsLiveCount ==
    /\ PoolSize(Pool) = Cardinality(pool_live)
    /\ plast.op \in {"construct", "clear"} => PoolSize(Pool) = 0

\* a clear() right after an emplace, on a pool with room for two or more
C13_Witness ==
    /\ plast.op = "clear"
    /\ plast.prev_op = "emplace"
    /\ pool_cap >= 2
    /\ PoolSize(Pool) = 0

\* C14: contains(e) is true exactly when e is live, get(e) is non-null
\* exactly when contains(e) is true, and the component emplace(e) or get(e)
\* returns reports get_entity() = e.
C14_Lookup ==
    /\ \A e \in PoolKey :
          /\ PoolContains(Pool, e) <=> e \in pool_live
          /\ ~PoolGet(Pool, e).null <=> PoolContains(Pool, e)
          /\ ~PoolGet(Pool, e).null => PoolGet(Pool, e).entity = e
    /\ plast.op = "emplace" => ~plast.ret.null /\ plast.ret.entity = plast.e

\* after a destroy that moved a component into the hole: one entity is
\* gone, two are still found
C14_Witness ==
    /\ plast.op = "destroy"
    /\ plast.had
    /\ Cardinality({e \in PoolEntity : PoolContains(Pool, e)}) = 2
    /\ \E e \in PoolEntity : ~PoolContains(Pool, e) /\ PoolGet(Pool, e).null

\* C15: for_each and range-based iteration each visit every live component
\* exactly once and no other, so each visits size() components, and both
\* visit the same components.
C15_Iteration ==
    LET f  == ForEach(Pool)
        it == Iterate(Pool)
    IN  /\ \A e \in PoolKey : Visits(f, e) = (IF e \in pool_live THEN 1 ELSE 0)
        /\ \A e \in PoolKey : Visits(it, e) = (IF e \in pool_live THEN 1 ELSE 0)
        /\ Len(f) = PoolSize(Pool)
        /\ Len(it) = PoolSize(Pool)
        /\ SeqToSet(f) = SeqToSet(it)

\* a traversal of two components after a third was destroyed
C15_Witness ==
    /\ plast.op = "destroy"
    /\ plast.had
    /\ Len(ForEach(Pool)) = 2
    /\ Len(Iterate(Pool)) = 2

\* C16: destroy(e) on an entity that is not live changes nothing: size(),
\* the live set and every stored component stay as they were; so a second
\* destroy(e) right after destroy(e) changes nothing.
C16_DestroyAbsentNoop ==
    [][ (plast'.op = "destroy" /\ plast'.e \notin pool_live)
        =>
        ( /\ PoolSize(Pool)' = PoolSize(Pool)
          /\ pool_live' = pool_live
          /\ pool_dense' = pool_dense
          /\ pool_index' = pool_index )
      ]_vars

\* destroy(e) of a live e followed by destroy(e), with components left
C16_Witness ==
    /\ plast.op = "destroy"
    /\ ~plast.had
    /\ plast.prev_op = "destroy"
    /\ plast.prev_e = plast.e
    /\ plast.prev_had
    /\ PoolSize(Pool) >= 1

\* C17: with hint 32, entities 0..127 emplaced and 44..100 destroyed, size()
\* is 71 and both sums over the components equal the sum the caller
\* tracked; and no emplace (growing the pool or not) and no destroy changes
\* or loses the data of a live entity other than the one it is called with.
C17_OthersKeepData ==
    /\ [](test.pc # "failed")
    /\ [](test.pc = "passed" =>
            /\ PoolSize(Pool) = 71
            /\ test.sum1 = test.check
            /\ test.sum2 = test.check
            /\ SumData(ForEach(Pool)) = test.check)
    /\ [][ (plast'.op \in {"emplace", "destroy"})
           =>
           \A e \in (pool_live \cap pool_live') \ {plast'.e} :
               DataOf(pool_dense', e) = DataOf(pool_dense, e)
         ]_vars

\* the test case ran to its last REQUIRE, past the capacity hint
C17_Witness ==
    /\ test.pc = "passed"
    /\ pool_cap > PoolReserve
    /\ test.check > 0

----------------------------------------------------------------------------
(* entity_orchestrator and the systems' create *)

\* the systems named in the results of a submit_create, in order
Delivered(results) == [i \in 1..Len(results) |-> results[i][1]]

\* C18: when two systems are registered for one component type, a
\* submit_create for that type reaches the create of both, in registration
\* order, and afterwards both hold the component for the entity; delivery
\* does not stop at the first system that accepts.
C18_FanOut ==
    LET reg == orch_registry[olast.type]
    IN  (olast.op = "submit_create" /\ Len(reg) >= 2)
        =>
        /\ Delivered(olast.results) = reg
        /\ \A i \in 1..Len(reg) : sys_components[reg[i]][olast.e] = olast.data
        /\ olast.ret

\* a submit_create of physics_component with both ex_system_one registered
C18_Witness ==
    /\ olast.op = "submit_create"
    /\ olast.type = "physics_component"
    /\ SeqToSet(orch_registry[olast.type]) = {"one_a", "one_b"}
    /\ sys_components["one_a"][olast.e] = olast.data
    /\ sys_components["one_b"][olast.e] = olast.data

\* C19: submit_create returns true exactly when the create of at least one
\* system registered for the type returns true; with no system registered
\* for the type it returns false and no system's components change.
C19_SubmitCreateResult ==
    [][ olast'.op = "submit_create"
        =>
        LET t   == olast'.type
            reg == orch_registry[t]
        IN  /\ olast'.ret <=>
                  \E i \in 1..Len(reg) :
                      SystemCreate(reg[i], sys_components[reg[i]],
                                   olast'.e, t, olast'.data).ret
            /\ reg = <<>> =>
                  /\ ~olast'.ret
                  /\ olast'.results = <<>>
                  /\ sys_components' = sys_components
      ]_vars

\* a submit_create of a type nobody registered for, made while systems are
\* registered for other types and one of them holds a component
C19_Witness ==
    /\ olast.op = "submit_create"
    /\ orch_registry[olast.type] = <<>>
    /\ ~olast.ret
    /\ \E t \in TypeId : orch_registry[t] # <<>>
    /\ \E s \in System : sys_components[s] # NoComponents

\* C20: create(e, type_id, data) of any system, called with a type the
\* system does not own, returns false and leaves the system's components
\* unchanged; when it returns true the system holds the component for e.
C20_CreateContract ==
    [][ olast'.op = "system_create"
        =>
        LET s == olast'.sys
        IN  /\ olast'.type \notin SeqToSet(RegisteredTypes(s)) =>
                  /\ ~olast'.ret
                  /\ sys_components'[s] = sys_components[s]
            /\ olast'.ret => sys_components'[s][olast'.e] = olast'.data
      ]_vars

\* C21: destroy(kAllEntities) of any system raises no error and leaves the
\* system without a component for any entity.
C21_DestroyAll ==
    (olast.op = "system_destroy" /\ olast.e = kAllEntities)
    =>
    /\ ~olast.threw
    /\ sys_components[olast.sys] = NoComponents
    /\ Kind(olast.sys) = "transform_system" =>
          \A e \in EntityArg : ~has_transform(e) /\ ~world_transforms[e].present

----------------------------------------------------------------------------
(* pbr_render_system and stable_cascaded_shadows *)

\* a render_frame that ran to its end
FrameDone == rlast.op = "render_frame" /\ rlast.res = "ok"

\* the places of a pass in the log of the last frame
PosOf(name, view) ==
    {i \in 1..Len(rlast.frame.log) : rlast.frame.log[i] = Pass(name, view)}

Times(name, view) == Cardinality(PosOf(name, view))

At(name, view) == CHOOSE i \in PosOf(name, view) : TRUE

C23_QueueOrder ==
    FrameDone =>
    LET list == rlast.frame.list
        id   == [e \in RenderEntity |-> renderer.materials[e].id]
        dist == rlast.frame.dist
    IN  /\ Len(list) = Len(rlast.render_set)
        /\ \A e \in RenderEntity : Count(list, e) = Count(rlast.render_set, e)
        /\ \A i, j, k \in 1..Len(list) :
              (i < j /\ j < k /\ id[list[i]] = id[list[k]]) => id[list[j]] = id[list[i]]
        /\ \A i, j \in 1..Len(list) :
              (i < j /\ id[list[i]] = id[list[j]]) => dist[list[i]] <= dist[list[j]]

\* C24: in every render_frame the shadow pass runs once when shadowsEnabled
\* is set and a directional light exists and not at all otherwise, whatever
\* cameraCount is; when it runs the cascades are recomputed and exactly the
\* entities of render_set whose material has cast_shadow are drawn.
C24_ShadowGating ==
    [][ (rlast'.op = "render_frame" /\ rlast'.res = "ok")
        =>
        LET runs  == renderer.settings.shadowsEnabled /\ renderer.directional_lights >= 1
            draws == rlast'.frame.shadow_draws
            log   == rlast'.frame.log
        IN  /\ Cardinality({i \in 1..Len(log) : log[i].pass = "shadow"})
                  = (IF runs THEN 1 ELSE 0)
            /\ runs =>
                  /\ Len(shadow'.splitPlanes) = NUM_CASCADES
                  /\ \A e \in RenderEntity :
                        Count(draws, e) =
                           (IF renderer.materials[e].cast_shadow
                            THEN Count(rlast'.render_set, e) ELSE 0)
            /\ ~runs => draws = <<>> /\ shadow' = shadow
      ]_vars

\* a stereo frame whose shadow pass drew one of two entities
C24_Witness ==
    /\ FrameDone
    /\ renderer.settings.cameraCount = 2
    /\ renderer.settings.shadowsEnabled
    /\ renderer.directional_lights = 1
    /\ Len(rlast.render_set) = 2
    /\ Len(rlast.frame.shadow_draws) = 1
    /\ Len(shadow.splitPlanes) = NUM_CASCADES

\* C25: get_color_texture(idx) and get_depth_texture(idx) stop at the
\* assertion for every idx outside 0..cameraCount-1, and no call that gets
\* past the assertion reads past the end of a texture array.
C25_TextureIndex ==
    rlast.op \in {"get_color_texture", "get_depth_texture"} =>
        /\ rlast.idx \notin 0..(renderer.settings.cameraCount - 1) => rlast.res = "assert"
        /\ rlast.res # "out_of_bounds"

\* C26: after every update_cascades call each list holds NUM_CASCADES
\* entries, every split has near < far, the first split starts at the
\* camera near plane, the last ends at the camera far plane, and the
\* splits do not go back as the cascade index grows.
C26_CascadeSplits ==
    rlast.op = "update_cascades" =>
    LET split == shadow.splitPlanes
    IN  /\ Len(split) = NUM_CASCADES
        /\ Len(shadow.nearPlanes) = NUM_CASCADES
        /\ Len(shadow.farPlanes) = NUM_CASCADES
        /\ Len(shadow.viewMatrices) = NUM_CASCADES
        /\ Len(shadow.projMatrices) = NUM_CASCADES
        /\ Len(shadow.shadowMatrices) = NUM_CASCADES
        /\ \A c \in 1..Len(split) : split[c][1] < split[c][2]
        /\ split[1][1] = SplitScale * rlast.clip[1]
        /\ split[Len(split)][2] = SplitScale * rlast.clip[2]
        /\ \A c \in 1..(Len(split) - 1) :
              /\ split[c][1] <= split[c + 1][1]
              /\ split[c][2] <= split[c + 1][2]

\* a third call in a row, with splitLambda strictly between 0 and 1
C26_Witness ==
    /\ rlast.op = "update_cascades"
    /\ rlast.idx = 3
    /\ shadow.splitLambda \in 1..(LambdaDen - 1)
    /\ rlast.clip[1] > 1

\* C30: the activePointLights count of a frame equals the number of
\* point_lights entries the frame wrote, and that number is at most
\* MAX_POINT_LIGHTS.
C30_ActivePointLights ==
    FrameDone =>
        /\ rlast.frame.activePointLights = rlast.frame.written
        /\ rlast.frame.written <= MAX_POINT_LIGHTS

----------------------------------------------------------------------------
(* transform_system, sequences of calls *)

\* C27: once destroy(e) has succeeded, a following call that returns and
\* names another entity (add_child, remove_parent, destroy or create, also
\* one on the former parent of e) leaves e without a record in the
\* scene-graph map and in the world-transform map.
C27_DestroyedStaysAbsent ==
    [][ ( /\ last.op = "destroy" /\ last.res = "ok"
          /\ last'.res # "stack_overflow"
          /\ last'.a # last.a
          /\ last'.b # last.a )
        =>
        ( /\ ~scene_graph_transforms'[last.a].present
          /\ ~world_transforms'[last.a].present )
      ]_vars

\* C28: in every state reached by create, add_child, remove_parent and
\* destroy calls with any entity argument, also a never-created one, the
\* scene-graph map and the world-transform map have the same key set.
C28_SameKeySet ==
    \A e \in EntityArg :
        scene_graph_transforms[e].present <=> world_transforms[e].present

\* C29: from every state reached by calls that returned, a further create,
\* add_child, remove_parent or destroy returns: its recursion over the
\* children vectors ends.
C29_CallsTerminate ==
    [][ last.res # "stack_overflow" => last'.res # "stack_overflow" ]_vars

====
